---- MODULE Spec2Model ----
(***************************************************************************)
(* A model of the NUI log-collection server of src/server.js: the          *)
(* multi-server program (lines 1-565) and the two older programs kept in   *)
(* the same file without an Auth Gate (lines 1098-1274, one file per       *)
(* resource, and lines 1276-1397, one single log file).                    *)
(*                                                                         *)
(* A JavaScript string is a sequence of one-character strings, so that     *)
(* sanitizeName and the resource pattern work on characters.  A JavaScript *)
(* value is a record [k, v]: k its typeof-like kind, v its payload.  An    *)
(* object built from a JSON body is a sequence of <<key, value>> pairs in  *)
(* insertion order, keys distinct.                                         *)
(***************************************************************************)
EXTENDS Integers, Sequences, FiniteSets, Bags, TLC

VARIABLES
    dirs,      \* the sub-directories of LOG_DIR (a set of names)
    files,     \* the files under LOG_DIR: path (sequence of segments) -> content
               \* [old, text]: the file's text is `old` lines left by an
               \* earlier run of the server, followed by `text`
    now,       \* the clock read by new Date(); it advances with every write
    jar,       \* the browser's value of the auth cookie (Undef: none)
    req,       \* the request handled last
    resp,      \* the response to it
    calls,     \* ghost: the writes to the file system made for that request
    hist,      \* ghost: path -> [old, new]: the entries appended since the
               \* file's last clear, `old` ones by an earlier run, then `new`
    rightPin,  \* ghost: a correct pin has been submitted to POST /login
    inflight   \* the bodies of the POST /log requests received and not yet
               \* handled (a bag)

vars == <<dirs, files, now, jar, req, resp, calls, hist, rightPin, inflight>>

----------------------------------------------------------------------------
(* Bounds of the model. *)

\* The most POST /log requests in flight at once.
MaxInFlight == 2

\* The longest name given to the sanitizers.
MaxNameLen == 3

\* The most requests of any kind in flight at once.
MaxRacing == 3

\* The clock stops here: at most MaxClock writes in one behaviour.
MaxClock == 2

----------------------------------------------------------------------------
(* JavaScript values. *)

Undef == [k |-> "undefined", v |-> <<>>]
Str(s) == [k |-> "string", v |-> s]
Num(n) == [k |-> "number", v |-> n]
Null == [k |-> "null", v |-> <<>>]

\* !x is FALSE for these: what `if (x)`, `x && y`, `x || y` test.
Truthy(x) ==
    CASE x.k = "undefined" -> FALSE
      [] x.k = "null" -> FALSE
      [] x.k = "string" -> x.v # <<>>
      [] x.k = "number" -> x.v # 0
      [] OTHER -> TRUE

IsString(x) == x.k = "string"

\* o[key] of an object: undefined when the key is absent.
Get(o, key) ==
    IF \E i \in 1..Len(o) : o[i][1] = key
    THEN o[CHOOSE i \in 1..Len(o) : o[i][1] = key][2]
    ELSE Undef

Has(o, key) == \E i \in 1..Len(o) : o[i][1] = key

Keys(o) == {o[i][1] : i \in 1..Len(o)}

\* delete o[key]
Delete(o, key) == SelectSeq(o, LAMBDA p : p[1] # key)

\* o[key] = val: an existing key keeps its place, a new key goes last.
Put(o, key, val) ==
    IF Has(o, key)
    THEN [i \in 1..Len(o) |-> IF o[i][1] = key THEN <<key, val>> ELSE o[i]]
    ELSE Append(o, <<key, val>>)

\* { ...target, ...src }: the own properties of src assigned in order.
RECURSIVE Spread(_, _)
Spread(target, src) ==
    IF src = <<>> THEN target
    ELSE Spread(Put(target, Head(src)[1], Head(src)[2]), Tail(src))

----------------------------------------------------------------------------
(* Characters and the configuration. *)

Lower == {"a","b","c","d","e","f","g","h","i","j","k","l","m",
          "n","o","p","q","r","s","t","u","v","w","x","y","z"}
Upper == {"A","B","C","D","E","F","G","H","I","J","K","L","M",
          "N","O","P","Q","R","S","T","U","V","W","X","Y","Z"}
Digit == {"0","1","2","3","4","5","6","7","8","9"}

\* The class [a-zA-Z0-9_-] of sanitizeName and of the resource pattern.
SafeChars == Lower \cup Upper \cup Digit \cup {"_", "-"}

VIEWER_PIN == Str(<<"2","8","0","8","2","4">>)

EXT == <<".","j","s","o","n","l">>

unknown == <<"u","n","k","n","o","w","n">>
default_server == <<"d","e","f","a","u","l","t","_","s","e","r","v","e","r">>

\* new Date().toISOString() at clock t.
DigitSeq == <<"0","1","2","3","4","5","6","7","8","9">>
toISOString(t) == Str(<<"T", DigitSeq[(t % 10) + 1]>>)

----------------------------------------------------------------------------
(* Helper functions of the server. *)

\* A sanitizer that falls back for values that are no strings only.
sanitizeNameOfStrings(name) ==
    IF ~IsString(name) THEN unknown
    ELSE [i \in 1..Len(name.v) |->
            IF name.v[i] \in SafeChars THEN name.v[i] ELSE "_"]

\* A sanitizer that drops the characters it does not accept.
sanitizeNameDropping(name) ==
    IF ~Truthy(name) \/ ~IsString(name) THEN unknown
    ELSE SelectSeq(name.v, LAMBDA c : c \in SafeChars)

\* A sanitizer that accepts the dot as well.
sanitizeNameKeepsDots(name) ==
    IF ~Truthy(name) \/ ~IsString(name) THEN unknown
    ELSE [i \in 1..Len(name.v) |->
            IF name.v[i] \in SafeChars \cup {"."} THEN name.v[i] ELSE "_"]

\* A sanitizer that writes "-" for a dot and "_" for the other characters it
\* does not accept.
sanitizeNameDotToDash(name) ==
    IF ~Truthy(name) \/ ~IsString(name) THEN unknown
    ELSE [i \in 1..Len(name.v) |->
            IF name.v[i] \in SafeChars THEN name.v[i]
            ELSE IF name.v[i] = "." THEN "-" ELSE "_"]

sanitizeName(name) ==
    IF ~Truthy(name) \/ ~IsString(name) THEN unknown
    ELSE [i \in 1..Len(name.v) |->
            IF name.v[i] \in SafeChars THEN name.v[i] ELSE "_"]

\* The file system below LOG_DIR, as a handler sees it: the directories, the
\* files, and the writes the handler has made so far.
FS(d, f) == [dirs |-> d, files |-> f, calls |-> <<>>, reads |-> <<>>]

\* path.join(LOG_DIR, ...segments): a path is the sequence of its segments
\* below LOG_DIR.
pathJoin(segments) == segments

\* One path handed to a reading function of fs (existsSync, statSync,
\* readdirSync, readFileSync), as noted in fs.reads.
Touch(fs, op, p) == [fs EXCEPT !.reads = Append(@, [op |-> op, path |-> p])]

existsSync(fs, p) ==
    \/ p \in DOMAIN fs.files
    \/ Len(p) = 1 /\ p[1] \in fs.dirs

\* One write to the file system, as noted in fs.calls: the operation, the
\* path, and for an append the entry and writeLog's arguments.
Call(op, p, entry, args) == [op |-> op, path |-> p, entry |-> entry, args |-> args]

mkdirSync(fs, d) ==
    [fs EXCEPT !.dirs = @ \cup {d},
               !.calls = Append(@, Call("mkdir", <<d>>, <<>>, <<>>))]

\* A text (a file's content, a string written to a file) is kept as
\* text.split('\n'): the non-empty sequence of its lines, a line being a
\* sequence of pieces.  The empty text is one empty line.
EmptyText == << <<>> >>

\* a + b of two texts: b's first line continues a's last one.
Concat(a, b) ==
    SubSeq(a, 1, Len(a) - 1) \o <<a[Len(a)] \o b[1]>> \o Tail(b)

\* JSON.stringify(entry): one piece of text without a line break; a property
\* whose value is undefined is left out.
stringify(entry) ==
    [k |-> "json", v |-> SelectSeq(entry, LAMBDA p : p[2].k # "undefined")]

\* The entry the earlier run wrote as line i of a file it left, and the text
\* of the first n such lines.
OldEntry(i) ==
    <<<<"timestamp", Str(<<"T","0">>)>>, <<"type", Str(<<"o","l","d">>)>>,
      <<"data", Num(i)>>>>

OldText(n) == [i \in 1..n |-> <<stringify(OldEntry(i))>>] \o EmptyText

\* fs.readFileSync(p, 'utf8')
readFileSync(fs, p) == Concat(OldText(fs.files[p].old), fs.files[p].text)

\* An appendFileSync that writes at the start of the file instead of its end:
\* the text takes the place of what the file held.
appendFileSyncAtStart(fs, p, text) ==
    [fs EXCEPT !.files =
        [q \in DOMAIN fs.files \cup {p} |->
            IF q = p THEN [old |-> 0, text |-> text] ELSE fs.files[q]]]

\* fs.appendFileSync(p, text): creates the file when it is missing.
appendFileSync(fs, p, text) ==
    [fs EXCEPT !.files =
        IF p \in DOMAIN fs.files
        THEN [fs.files EXCEPT ![p].text = Concat(@, text)]
        ELSE [q \in DOMAIN fs.files \cup {p} |->
                IF q = p THEN [old |-> 0, text |-> text] ELSE fs.files[q]]]

\* A writeFileSync that leaves the content of the file as it is.
writeFileSyncKeeps(fs, p) ==
    [fs EXCEPT !.files =
                  [q \in DOMAIN fs.files \cup {p} |->
                      IF q \in DOMAIN fs.files THEN fs.files[q]
                      ELSE [old |-> 0, text |-> EmptyText]],
               !.calls = Append(@, Call("truncate", p, <<>>, <<>>))]

\* A clear that removes the file (fs.unlinkSync) instead of emptying it.
writeFileSyncUnlinks(fs, p) ==
    [fs EXCEPT !.files = [q \in DOMAIN fs.files \ {p} |-> fs.files[q]],
               !.calls = Append(@, Call("truncate", p, <<>>, <<>>))]

\* A clear that stops inside a record: the file is left with the start of
\* its first line.
writeFileSyncPartial(fs, p) ==
    [fs EXCEPT !.files =
                  [q \in DOMAIN fs.files \cup {p} |->
                      IF q = p
                      THEN [old |-> 0, text |-> << <<[k |-> "text", v |-> <<>>]>> >>]
                      ELSE fs.files[q]],
               !.calls = Append(@, Call("truncate", p, <<>>, <<>>))]

\* A clear that empties every file of the store.
writeFileSyncEveryFile(fs, p) ==
    [fs EXCEPT !.files = [q \in DOMAIN fs.files \cup {p} |->
                             [old |-> 0, text |-> EmptyText]],
               !.calls = Append(@, Call("truncate", p, <<>>, <<>>))]

\* fs.writeFileSync(p, ''): creates or truncates.
writeFileSyncEmpty(fs, p) ==
    [fs EXCEPT !.files =
                  [q \in DOMAIN fs.files \cup {p} |->
                      IF q = p THEN [old |-> 0, text |-> EmptyText]
                      ELSE fs.files[q]],
               !.calls = Append(@, Call("truncate", p, <<>>, <<>>))]

\* The entry writeLog builds: the timestamp first, then the data spread over it.
logEntry(t, data) == Spread(<<<<"timestamp", toISOString(t)>>>>, data)

\* A writeLog that appends the entry without the line break after it.
writeLogUnterminated(fs, t, server, resource, data) ==
    LET safeServer == sanitizeName(IF Truthy(server) THEN server
                                   ELSE Str(default_server))
        safeResource == sanitizeName(resource)
        fs1 == IF ~existsSync(fs, <<safeServer>>)
               THEN mkdirSync(fs, safeServer) ELSE fs
        logFilePath == pathJoin(<<safeServer, safeResource \o EXT>>)
        logLine == << <<stringify(logEntry(t, data))>> >>
        fs2 == appendFileSync(fs1, logFilePath, logLine)
    IN  [fs2 EXCEPT !.calls = Append(@, Call("append", logFilePath, logEntry(t, data),
                                             <<server, resource, data>>))]

\* A writeLog without the default for a missing server name.
writeLogNoDefault(fs, t, server, resource, data) ==
    LET safeServer == sanitizeName(server)
        safeResource == sanitizeName(resource)
        fs1 == IF ~existsSync(fs, <<safeServer>>)
               THEN mkdirSync(fs, safeServer) ELSE fs
        logFilePath == pathJoin(<<safeServer, safeResource \o EXT>>)
        logLine == << <<stringify(logEntry(t, data))>>, <<>> >>
        fs2 == appendFileSync(fs1, logFilePath, logLine)
    IN  [fs2 EXCEPT !.calls = Append(@, Call("append", logFilePath, logEntry(t, data),
                                             <<server, resource, data>>))]

writeLog(fs, t, server, resource, data) ==
    LET safeServer == sanitizeName(IF Truthy(server) THEN server
                                   ELSE Str(default_server))
        safeResource == sanitizeName(resource)
        fs0 == Touch(fs, "exists", pathJoin(<<safeServer>>))
        fs1 == IF ~existsSync(fs, <<safeServer>>)
               THEN mkdirSync(fs0, safeServer) ELSE fs0
        logFilePath == pathJoin(<<safeServer, safeResource \o EXT>>)
        \* JSON.stringify(logEntry) + '\n'
        logLine == << <<stringify(logEntry(t, data))>>, <<>> >>
        fs2 == appendFileSync(fs1, logFilePath, logLine)
    IN  [fs2 EXCEPT !.calls = Append(@, Call("append", logFilePath, logEntry(t, data),
                                             <<server, resource, data>>))]

----------------------------------------------------------------------------
(* Requests and responses. *)

\* A request: the endpoint, the value of the auth cookie, the parsed body and
\* the parsed query string (objects).
Request(ep, cookie, body, query) ==
    [ep |-> ep, cookie |-> cookie, body |-> body, query |-> query]

Response(status, kind, body) ==
    [status |-> status, kind |-> kind, body |-> body,
     location |-> "", setCookie |-> Undef]

\* res.redirect(location)
redirect(location) ==
    [status |-> 302, kind |-> "redirect", body |-> <<>>,
     location |-> location, setCookie |-> Undef]

\* res.sendStatus(200)
sendStatus200 == Response(200, "text", <<>>)

\* res.status(s).json({ error: message })
jsonError(status, message) ==
    Response(status, "object", <<<<"error", message>>>>)

\* What a handler returns: the response and the file system it leaves.
Outcome(r, fs) == [resp |-> r, fs |-> fs]

----------------------------------------------------------------------------
(* The Auth Gate. *)

\* An Auth Gate that lets the secret read but not clear.
checkAuthReadOnly(r) == r.cookie = VIEWER_PIN /\ r.ep # "POST /clear"

\* checkAuth: TRUE when next() is called, FALSE when the request is redirected.
checkAuth(r) == r.cookie = VIEWER_PIN

----------------------------------------------------------------------------
(* POST /log *)

StartsWith(s, p) == Len(s) >= Len(p) /\ SubSeq(s, 1, Len(p)) = p

\* The number of characters of [a-zA-Z0-9_-] that s holds from position i on.
RunOfSafe(s, i) ==
    CHOOSE n \in 0..(Len(s) - i + 1) :
        /\ \A j \in i..(i + n - 1) : s[j] \in SafeChars
        /\ (i + n > Len(s) \/ s[i + n] \notin SafeChars)

\* url.match(/^https:\/\/([a-zA-Z0-9_-]+)\//): a pattern for https only.
matchResourceHttpsOnly(url) ==
    LET scheme == IF StartsWith(url, <<"h","t","t","p","s",":","/","/">>) THEN 8
                  ELSE 0
        n == RunOfSafe(url, scheme + 1)
    IN  IF /\ scheme > 0
           /\ n >= 1
           /\ scheme + n + 1 <= Len(url)
           /\ url[scheme + n + 1] = "/"
        THEN <<SubSeq(url, scheme + 1, scheme + n)>>
        ELSE <<>>

\* url.match(/^https?:\/\/([a-zA-Z0-9_-]+)\//): the captured group as a
\* one-element sequence, or the empty sequence for null.
matchResource(url) ==
    LET scheme == IF StartsWith(url, <<"h","t","t","p","s",":","/","/">>) THEN 8
                  ELSE IF StartsWith(url, <<"h","t","t","p",":","/","/">>) THEN 7
                  ELSE 0
        n == RunOfSafe(url, scheme + 1)
    IN  IF /\ scheme > 0
           /\ n >= 1
           /\ scheme + n + 1 <= Len(url)
           /\ url[scheme + n + 1] = "/"
        THEN <<SubSeq(url, scheme + 1, scheme + n)>>
        ELSE <<>>

\* An inference that parses the callback or the url whatever the type.
inferResourceAnyType(logData, declared) ==
    LET callback == Get(logData, "callback")
        url == Get(logData, "url")
        urlToParse == IF Truthy(callback) THEN callback
                      ELSE IF IsString(url) THEN url
                      ELSE Undef
    IN  IF ~Truthy(urlToParse) THEN declared
        ELSE IF ~IsString(urlToParse) THEN declared
        ELSE IF matchResource(urlToParse.v) # <<>>
             THEN Str(matchResource(urlToParse.v)[1])
        ELSE declared

\* The inner try block of POST /log: the resource the record is stored under.
\* A urlToParse that is no string has no match method: the TypeError is
\* caught, a warning is printed and the declared resource stays.
inferResource(logData, declared) ==
    LET type == Get(logData, "type")
        callback == Get(logData, "callback")
        url == Get(logData, "url")
        urlToParse ==
            IF type = Str(<<"n","u","i","_","t","o","_","l","u","a">>)
               /\ Truthy(callback)
            THEN callback
            ELSE IF type = Str(<<"f","e","t","c","h","_","c","a","l","l">>)
                    /\ IsString(url)
            THEN url
            ELSE Undef
    IN  IF ~Truthy(urlToParse) THEN declared
        ELSE IF ~IsString(urlToParse) THEN declared
        ELSE IF matchResource(urlToParse.v) # <<>>
             THEN Str(matchResource(urlToParse.v)[1])
        ELSE declared

\* A POST /log without the check of the resource name.
postLogUnchecked(r, fs, t) ==
    LET server == Get(r.body, "server")
        logData == Delete(Delete(r.body, "resource"), "server")
        actualResource == inferResource(logData, Get(r.body, "resource"))
    IN  Outcome(sendStatus200, writeLog(fs, t, server, actualResource, logData))

\* A POST /log behind the Auth Gate.
postLogGated(r, fs, t) ==
    LET server == Get(r.body, "server")
        logData == Delete(Delete(r.body, "resource"), "server")
        actualResource == inferResource(logData, Get(r.body, "resource"))
    IN  IF ~checkAuth(r) THEN Outcome(redirect("/login"), fs)
        ELSE IF ~Truthy(actualResource)
        THEN Outcome(jsonError(400, "Resource name is required."), fs)
        ELSE Outcome(sendStatus200,
                     writeLog(fs, t, server, actualResource, logData))

postLog(r, fs, t) ==
    LET server == Get(r.body, "server")
        logData == Delete(Delete(r.body, "resource"), "server")
        actualResource == inferResource(logData, Get(r.body, "resource"))
    IN  IF ~Truthy(actualResource)
        THEN Outcome(jsonError(400, "Resource name is required."), fs)
        ELSE Outcome(sendStatus200,
                     writeLog(fs, t, server, actualResource, logData))

----------------------------------------------------------------------------
(* GET /logs *)

\* line.trim() is not empty: the line holds more than white space.
notBlank(line) == \E i \in 1..Len(line) : line[i].k # "ws"

\* JSON.parse(line) succeeds: white space apart, the line is one JSON text.
parses(line) ==
    LET text == SelectSeq(line, LAMBDA c : c.k # "ws")
    IN  Len(text) = 1 /\ text[1].k = "json"

JSONparse(line) == SelectSeq(line, LAMBDA c : c.k # "ws")[1].v

\* array.slice(0, n): the first n elements instead of the last.
sliceFirst(array, n) ==
    SubSeq(array, 1, IF Len(array) > n THEN n ELSE Len(array))

\* array.slice(-n)
sliceLast(array, n) ==
    SubSeq(array, IF Len(array) > n THEN Len(array) - n + 1 ELSE 1, Len(array))

\* A tail without .filter(line => line.trim()): the empty line after the
\* last line break is parsed too, and JSON.parse('') throws.
readLogsUnfiltered(text, limit) ==
    IF \E i \in 1..Len(text) : ~parses(text[i])
    THEN [threw |-> TRUE, logs |-> <<>>]
    ELSE [threw |-> FALSE,
          logs |-> sliceLast([i \in 1..Len(text) |-> JSONparse(text[i])], limit)]

\* A tail that takes the last lines first and parses only those.
readLogsTailOnly(text, limit) ==
    LET lines == sliceLast(SelectSeq(text, notBlank), limit)
    IN  IF \E i \in 1..Len(lines) : ~parses(lines[i])
        THEN [threw |-> TRUE, logs |-> <<>>]
        ELSE [threw |-> FALSE,
              logs |-> [i \in 1..Len(lines) |-> JSONparse(lines[i])]]

\* The tail of a file: readFileSync(..).split('\n').filter(line => line.trim())
\* .map(line => JSON.parse(line)).slice(-limit).  Every line is parsed before
\* the slice, so one malformed line makes the whole read throw.
readLogs(text, limit) ==
    LET lines == SelectSeq(text, notBlank)
    IN  IF \E i \in 1..Len(lines) : ~parses(lines[i])
        THEN [threw |-> TRUE, logs |-> <<>>]
        ELSE [threw |-> FALSE,
              logs |-> sliceLast([i \in 1..Len(lines) |-> JSONparse(lines[i])],
                                 limit)]

\* The entries kept by slice(-200) in GET /logs.
TAIL_LIMIT == 200

\* Some order of a finite set of names: readdirSync fixes none.
RECURSIVE SetToSeq(_)
SetToSeq(S) ==
    IF S = {} THEN <<>>
    ELSE LET x == CHOOSE y \in S : TRUE IN <<x>> \o SetToSeq(S \ {x})

endsWith(name, suffix) ==
    /\ Len(name) >= Len(suffix)
    /\ SubSeq(name, Len(name) - Len(suffix) + 1, Len(name)) = suffix

\* name.replace(what, ''): the first occurrence of `what` is removed.
removeFirst(name, what) ==
    LET at == {i \in 1..(Len(name) - Len(what) + 1) :
                 SubSeq(name, i, i + Len(what) - 1) = what}
    IN  IF at = {} THEN name
        ELSE LET i == CHOOSE j \in at : \A m \in at : j <= m
             IN  SubSeq(name, 1, i - 1) \o SubSeq(name, i + Len(what), Len(name))

\* fs.readdirSync(dir): the names of the files right below the directory.
readdirFiles(fs, dir) ==
    {p[Len(p)] : p \in {q \in DOMAIN fs.files : SubSeq(q, 1, Len(q) - 1) = dir}}

\* A resource listing that returns the file names with their extension.
listResourcesKeepsExtension(fs, dir) ==
    {Str(f) : f \in {g \in readdirFiles(fs, dir) : endsWith(g, EXT)}}

\* readdirSync(dir).filter(file => file.endsWith('.jsonl'))
\*                 .map(file => file.replace('.jsonl', ''))
listResources(fs, dir) ==
    {Str(removeFirst(f, EXT)) : f \in {g \in readdirFiles(fs, dir) : endsWith(g, EXT)}}

\* A GET /logs that reads without testing that the file or the directory
\* exists: readFileSync and readdirSync throw ENOENT, answered 500.
getLogsHandlerUnguarded(r, fs) ==
    LET server == Get(r.query, "server")
        resource == Get(r.query, "resource")
    IN  IF Truthy(server) /\ Truthy(resource)
        THEN LET logFilePath == pathJoin(<<sanitizeName(server),
                                           sanitizeName(resource) \o EXT>>)
             IN  IF ~existsSync(fs, logFilePath)
                 THEN Outcome(jsonError(500, "ENOENT"), fs)
                 ELSE LET read == readLogs(readFileSync(fs, logFilePath), TAIL_LIMIT)
                      IN  IF read.threw
                          THEN Outcome(jsonError(500, "SyntaxError"), fs)
                          ELSE Outcome(Response(200, "array", read.logs), fs)
        ELSE IF Truthy(server)
        THEN LET safeServer == sanitizeName(server)
             IN  IF safeServer \notin fs.dirs
                 THEN Outcome(jsonError(500, "ENOENT"), fs)
                 ELSE Outcome(Response(200, "array",
                                  SetToSeq(listResources(fs, <<safeServer>>))), fs)
        ELSE Outcome(Response(200, "array",
                         SetToSeq({Str(d) : d \in fs.dirs})), fs)

getLogsHandler(r, fs) ==
    LET server == Get(r.query, "server")
        resource == Get(r.query, "resource")
    IN  IF Truthy(server) /\ Truthy(resource)
        THEN LET logFilePath == pathJoin(<<sanitizeName(server),
                                           sanitizeName(resource) \o EXT>>)
                 fs1 == Touch(fs, "exists", logFilePath)
             IN  IF ~existsSync(fs, logFilePath)
                 THEN Outcome(Response(200, "array", <<>>), fs1)
                 ELSE LET read == readLogs(readFileSync(fs, logFilePath), TAIL_LIMIT)
                          fs2 == Touch(fs1, "read", logFilePath)
                      IN  IF read.threw
                          THEN Outcome(jsonError(500, "SyntaxError"), fs2)
                          ELSE Outcome(Response(200, "array", read.logs), fs2)
        ELSE IF Truthy(server)
        THEN LET safeServer == sanitizeName(server)
                 fs1 == Touch(fs, "exists", pathJoin(<<safeServer>>))
             IN  IF ~existsSync(fs, <<safeServer>>) \/ safeServer \notin fs.dirs
                 THEN Outcome(Response(200, "array", <<>>), fs1)
                 ELSE Outcome(Response(200, "array",
                                  SetToSeq(listResources(fs, <<safeServer>>))),
                              Touch(fs1, "readdir", pathJoin(<<safeServer>>)))
        ELSE Outcome(Response(200, "array",
                         SetToSeq({Str(d) : d \in fs.dirs})),
                     Touch(fs, "readdir", pathJoin(<<>>)))

getLogs(r, fs) ==
    IF checkAuth(r) THEN getLogsHandler(r, fs)
    ELSE Outcome(redirect("/login"), fs)

----------------------------------------------------------------------------
(* POST /clear *)

\* A POST /clear without the checks of the server and resource names.
postClearUnchecked(r, fs) ==
    LET server == Get(r.body, "server")
        resource == Get(r.body, "resource")
        safeServer == sanitizeName(server)
        safeResource == sanitizeName(resource)
        logFilePath == pathJoin(<<safeServer, safeResource \o EXT>>)
    IN  IF existsSync(fs, logFilePath)
        THEN Outcome(Response(200, "object",
                        <<<<"message", <<"Logs cleared for", safeServer, safeResource>>>>>>),
                     writeFileSyncEmpty(fs, logFilePath))
        ELSE Outcome(Response(404, "object",
                        <<<<"message", <<"No logs found for", safeServer, safeResource>>>>>>),
                     fs)

postClearHandler(r, fs) ==
    LET server == Get(r.body, "server")
        resource == Get(r.body, "resource")
        safeServer == sanitizeName(server)
        safeResource == sanitizeName(resource)
        logFilePath == pathJoin(<<safeServer, safeResource \o EXT>>)
        fs1 == Touch(fs, "exists", logFilePath)
    IN  IF ~Truthy(server)
        THEN Outcome(jsonError(400, "Server name is required."), fs)
        ELSE IF ~Truthy(resource)
        THEN Outcome(jsonError(400, "Resource name is required."), fs)
        ELSE IF existsSync(fs, logFilePath)
        THEN Outcome(Response(200, "object",
                        <<<<"message", <<"Logs cleared for", safeServer, safeResource>>>>>>),
                     writeFileSyncEmpty(fs1, logFilePath))
        ELSE Outcome(Response(404, "object",
                        <<<<"message", <<"No logs found for", safeServer, safeResource>>>>>>),
                     fs1)

postClear(r, fs) ==
    IF checkAuth(r) THEN postClearHandler(r, fs)
    ELSE Outcome(redirect("/login"), fs)

----------------------------------------------------------------------------
(* The other endpoints. *)

getHealth(r, fs, t) ==
    Outcome(Response(200, "object",
                <<<<"status", "running">>, <<"logDirectory", "./logs">>,
                  <<"timestamp", toISOString(t)>>>>), fs)

getLogin(r, fs) == Outcome(Response(200, "html", "login"), fs)

\* A POST /login that compares with == : the number 280824 equals the secret.
postLoginLoose(r, fs) ==
    IF Get(r.body, "pin") \in {VIEWER_PIN, Num(280824)}
    THEN Outcome([redirect("/view") EXCEPT !.setCookie = VIEWER_PIN], fs)
    ELSE Outcome(redirect("/login"), fs)

\* POST /login: the cookie is set to VIEWER_PIN when the pin is the secret.
postLogin(r, fs) ==
    IF Get(r.body, "pin") = VIEWER_PIN
    THEN Outcome([redirect("/view") EXCEPT !.setCookie = VIEWER_PIN], fs)
    ELSE Outcome(redirect("/login"), fs)

getRoot(r, fs) == Outcome(redirect("/view"), fs)

getView(r, fs) ==
    IF checkAuth(r) THEN Outcome(Response(200, "html", "viewer"), fs)
    ELSE Outcome(redirect("/login"), fs)

\* The routes of the application: the handler each endpoint is registered with.
route(r, fs, t) ==
    CASE r.ep = "POST /log" -> postLog(r, fs, t)
      [] r.ep = "GET /logs" -> getLogs(r, fs)
      [] r.ep = "POST /clear" -> postClear(r, fs)
      [] r.ep = "GET /health" -> getHealth(r, fs, t)
      [] r.ep = "GET /login" -> getLogin(r, fs)
      [] r.ep = "POST /login" -> postLogin(r, fs)
      [] r.ep = "GET /" -> getRoot(r, fs)
      [] r.ep = "GET /view" -> getView(r, fs)

----------------------------------------------------------------------------
(* The inputs of the model. *)

s1 == <<"s","1">>
zz == <<"z","z">>
foo == <<"f","o","o">>
bar == <<"b","a","r">>
a_dot_b == <<"a",".","b">>
up_s1 == <<".",".","/","s","1">>
console == <<"c","o","n","s","o","l","e">>
fetch_call == <<"f","e","t","c","h","_","c","a","l","l">>
nui_to_lua == <<"n","u","i","_","t","o","_","l","u","a">>
hello == <<"h","e","l","l","o">>
httpsBar == <<"h","t","t","p","s",":","/","/","b","a","r","/","x">>
httpBar == <<"h","t","t","p",":","/","/","b","a","r","/","x">>
nuiBar == <<"n","u","i",":","/","/","b","a","r","/","x">>
wrongPin == <<"0","0","0","0","0","0">>

\* The bodies of POST /log.
LogBodies == {
    \* a console record under a declared resource
    <<<<"server", Str(s1)>>, <<"resource", Str(foo)>>,
      <<"type", Str(console)>>, <<"data", Str(hello)>>>>,
    \* a fetch_call whose url names another resource; no server
    <<<<"resource", Str(foo)>>, <<"type", Str(fetch_call)>>,
      <<"url", Str(httpsBar)>>>>,
    \* a fetch_call whose url has another scheme than http(s)
    <<<<"server", Str(s1)>>, <<"resource", Str(foo)>>,
      <<"type", Str(fetch_call)>>, <<"url", Str(nuiBar)>>>>,
    \* a nui_to_lua whose callback names another resource, for a server
    \* name that climbs out of the log directory
    <<<<"server", Str(up_s1)>>, <<"resource", Str(a_dot_b)>>,
      <<"type", Str(nui_to_lua)>>, <<"callback", Str(httpBar)>>>>,
    \* a nui_to_lua whose callback is a number: match throws; the body
    \* carries a timestamp of its own
    <<<<"server", Str(s1)>>, <<"resource", Str(foo)>>,
      <<"type", Str(nui_to_lua)>>, <<"callback", Num(5)>>,
      <<"timestamp", Str(<<"c">>)>>>>,
    \* no resource, nothing to infer
    <<<<"server", Str(s1)>>, <<"type", Str(console)>>, <<"data", Str(hello)>>>>,
    \* no resource, but a url that names one
    <<<<"server", Str(s1)>>, <<"type", Str(fetch_call)>>, <<"url", Str(httpsBar)>>>>,
    \* no type, with a url that names a resource
    <<<<"server", Str(s1)>>, <<"resource", Str(foo)>>, <<"url", Str(httpsBar)>>>>,
    \* an empty resource
    <<<<"server", Str(s1)>>, <<"resource", Str(<<>>)>>, <<"type", Str(console)>>>>
}

\* The query strings of GET /logs.
LogQueries == {
    <<>>,
    <<<<"server", Str(s1)>>>>,
    <<<<"server", Str(zz)>>>>,
    <<<<"server", Str(s1)>>, <<"resource", Str(foo)>>>>,
    <<<<"server", Str(s1)>>, <<"resource", Str(a_dot_b)>>>>,
    <<<<"server", Str(default_server)>>, <<"resource", Str(bar)>>>>
}

\* The bodies of POST /clear.
ClearBodies == {
    <<<<"server", Str(s1)>>>>,
    <<<<"resource", Str(foo)>>>>,
    <<<<"server", Str(s1)>>, <<"resource", Str(foo)>>>>,
    <<<<"server", Str(default_server)>>, <<"resource", Str(bar)>>>>,
    <<<<"server", Str(zz)>>, <<"resource", Str(foo)>>>>
}

\* The bodies of POST /login.
LoginBodies == {
    <<>>,
    <<<<"pin", VIEWER_PIN>>>>,
    <<<<"pin", Str(wrongPin)>>>>,
    <<<<"pin", Num(280824)>>>>
}

----------------------------------------------------------------------------
(* The log directory the process finds when it starts: empty, or holding *)
(* one file written by an earlier run.                                    *)

\* The number of lines of that file: one less than the tail's limit.
OldLines == TAIL_LIMIT - 1

OldPath == <<s1, foo \o EXT>>

\* The stores the process may find: nothing, or one file at path p.
StoresWith(d, p) == {
    FS({}, [q \in {} |-> [old |-> 0, text |-> EmptyText]]),
    FS(d, [q \in {p} |-> [old |-> OldLines, text |-> EmptyText]])
}

InitStores == StoresWith({s1}, OldPath)

NoRequest == Request("none", Undef, <<>>, <<>>)
NoResponse == Response(0, "none", <<>>)

InitWith(stores) ==
    /\ \E fs \in stores :
        /\ dirs = fs.dirs
        /\ files = fs.files
        /\ hist = [p \in DOMAIN fs.files |-> [old |-> fs.files[p].old, new |-> <<>>]]
    /\ now = 1
    /\ jar \in {Undef, Str(wrongPin)}
    /\ req = NoRequest
    /\ resp = NoResponse
    /\ calls = <<>>
    /\ rightPin = FALSE
    /\ inflight = EmptyBag

Init == InitWith(InitStores)

----------------------------------------------------------------------------
(* The multi-server program (lines 1-565): one action per endpoint. *)

\* hist after the writes a handler made.
RECURSIVE ApplyCalls(_, _)
ApplyCalls(h, cs) ==
    IF cs = <<>> THEN h
    ELSE LET c == Head(cs)
             old == IF c.path \in DOMAIN h THEN h[c.path]
                    ELSE [old |-> 0, new |-> <<>>]
             new == IF c.op = "append"
                    THEN [old EXCEPT !.new = Append(@, c.entry)]
                    ELSE [old |-> 0, new |-> <<>>]
         IN  IF c.op = "mkdir" THEN ApplyCalls(h, Tail(cs))
             ELSE ApplyCalls([p \in DOMAIN h \cup {c.path} |->
                                IF p = c.path THEN new ELSE h[p]], Tail(cs))

\* The server answers request r with outcome out; the browser keeps a cookie
\* the response sets.
Serve(r, out) ==
    /\ req' = r
    /\ resp' = out.resp
    /\ dirs' = out.fs.dirs
    /\ files' = out.fs.files
    /\ calls' = out.fs.calls
    /\ hist' = ApplyCalls(hist, out.fs.calls)
    /\ now' = IF \E i \in 1..Len(out.fs.calls) : out.fs.calls[i].op = "append"
              THEN now + 1 ELSE now
    /\ jar' = IF out.resp.setCookie # Undef THEN out.resp.setCookie ELSE jar

PostLog ==
    /\ now <= MaxClock
    /\ \E b \in LogBodies :
        LET r == Request("POST /log", jar, b, <<>>)
        IN  Serve(r, route(r, FS(dirs, files), now))
    /\ UNCHANGED <<rightPin, inflight>>

GetLogs ==
    /\ \E q \in LogQueries :
        LET r == Request("GET /logs", jar, <<>>, q)
        IN  Serve(r, route(r, FS(dirs, files), now))
    /\ UNCHANGED <<rightPin, inflight>>

PostClear ==
    /\ \E b \in ClearBodies :
        LET r == Request("POST /clear", jar, b, <<>>)
        IN  Serve(r, route(r, FS(dirs, files), now))
    /\ UNCHANGED <<rightPin, inflight>>

GetHealth ==
    /\ LET r == Request("GET /health", jar, <<>>, <<>>)
       IN  Serve(r, route(r, FS(dirs, files), now))
    /\ UNCHANGED <<rightPin, inflight>>

GetLogin ==
    /\ LET r == Request("GET /login", jar, <<>>, <<>>)
       IN  Serve(r, route(r, FS(dirs, files), now))
    /\ UNCHANGED <<rightPin, inflight>>

PostLogin ==
    /\ \E b \in LoginBodies :
        LET r == Request("POST /login", jar, b, <<>>)
        IN  /\ Serve(r, route(r, FS(dirs, files), now))
            /\ rightPin' = (rightPin \/ Get(b, "pin") = VIEWER_PIN)
    /\ UNCHANGED inflight

GetRoot ==
    /\ LET r == Request("GET /", jar, <<>>, <<>>)
       IN  Serve(r, route(r, FS(dirs, files), now))
    /\ UNCHANGED <<rightPin, inflight>>

GetView ==
    /\ LET r == Request("GET /view", jar, <<>>, <<>>)
       IN  Serve(r, route(r, FS(dirs, files), now))
    /\ UNCHANGED <<rightPin, inflight>>

Next ==
    \/ PostLog
    \/ GetLogs
    \/ PostClear
    \/ GetHealth
    \/ GetLogin
    \/ PostLogin
    \/ GetRoot
    \/ GetView

Spec == Init /\ [][Next]_vars

----------------------------------------------------------------------------
(* The older program with one file per resource and no Auth Gate *)
(* (lines 1098-1274).                                            *)

unknown_resource ==
    <<"u","n","k","n","o","w","n","_","r","e","s","o","u","r","c","e">>

sanitizeResourceName(resourceName) ==
    IF ~Truthy(resourceName) \/ ~IsString(resourceName) THEN unknown_resource
    ELSE [i \in 1..Len(resourceName.v) |->
            IF resourceName.v[i] \in SafeChars THEN resourceName.v[i] ELSE "_"]

writeLogFlat(fs, t, resource, data) ==
    LET safeResource == sanitizeResourceName(resource)
        logFilePath == pathJoin(<<safeResource \o EXT>>)
        logLine == << <<stringify(logEntry(t, data))>>, <<>> >>
        fs1 == appendFileSync(fs, logFilePath, logLine)
    IN  [fs1 EXCEPT !.calls = Append(@, Call("append", logFilePath, logEntry(t, data),
                                             <<Undef, resource, data>>))]

\* const { resource, ...logData } = req.body
postLogFlat(r, fs, t) ==
    LET resource == Get(r.body, "resource")
        logData == Delete(r.body, "resource")
    IN  IF ~Truthy(resource)
        THEN Outcome(jsonError(400, "Resource name is required."), fs)
        ELSE Outcome(sendStatus200, writeLogFlat(fs, t, resource, logData))

getLogsFlat(r, fs) ==
    LET resource == Get(r.query, "resource")
        logFilePath == pathJoin(<<sanitizeResourceName(resource) \o EXT>>)
    IN  IF ~Truthy(resource)
        THEN Outcome(Response(200, "array", SetToSeq(listResources(fs, <<>>))), fs)
        ELSE IF ~existsSync(fs, logFilePath)
        THEN Outcome(Response(200, "array", <<>>), fs)
        ELSE LET read == readLogs(readFileSync(fs, logFilePath), TAIL_LIMIT)
             IN  IF read.threw
                 THEN Outcome(jsonError(500, "SyntaxError"), fs)
                 ELSE Outcome(Response(200, "array", read.logs), fs)

postClearFlat(r, fs) ==
    LET resource == Get(r.body, "resource")
        safeResource == sanitizeResourceName(resource)
        logFilePath == pathJoin(<<safeResource \o EXT>>)
    IN  IF ~Truthy(resource)
        THEN Outcome(jsonError(400, "Resource name is required to clear logs."), fs)
        ELSE IF existsSync(fs, logFilePath)
        THEN Outcome(Response(200, "object",
                        <<<<"message", <<"Logs cleared for", safeResource>>>>>>),
                     writeFileSyncEmpty(fs, logFilePath))
        ELSE Outcome(Response(404, "object",
                        <<<<"message", <<"No logs found for", safeResource>>>>>>),
                     fs)

routeFlat(r, fs, t) ==
    CASE r.ep = "POST /log" -> postLogFlat(r, fs, t)
      [] r.ep = "GET /logs" -> getLogsFlat(r, fs)
      [] r.ep = "POST /clear" -> postClearFlat(r, fs)
      [] r.ep = "GET /health" -> getHealth(r, fs, t)

\* The query strings of GET /logs and the bodies of POST /clear.
FlatQueries == {
    <<>>,
    <<<<"resource", Str(foo)>>>>,
    <<<<"resource", Str(a_dot_b)>>>>
}

FlatClearBodies == {
    <<>>,
    <<<<"resource", Str(foo)>>>>,
    <<<<"resource", Str(bar)>>>>
}

InitFlat == InitWith(StoresWith({}, <<foo \o EXT>>))

PostLogFlat ==
    /\ now <= MaxClock
    /\ \E b \in LogBodies :
        LET r == Request("POST /log", jar, b, <<>>)
        IN  Serve(r, routeFlat(r, FS(dirs, files), now))
    /\ UNCHANGED <<rightPin, inflight>>

GetLogsFlat ==
    /\ \E q \in FlatQueries :
        LET r == Request("GET /logs", jar, <<>>, q)
        IN  Serve(r, routeFlat(r, FS(dirs, files), now))
    /\ UNCHANGED <<rightPin, inflight>>

PostClearFlat ==
    /\ \E b \in FlatClearBodies :
        LET r == Request("POST /clear", jar, b, <<>>)
        IN  Serve(r, routeFlat(r, FS(dirs, files), now))
    /\ UNCHANGED <<rightPin, inflight>>

GetHealthFlat ==
    /\ LET r == Request("GET /health", jar, <<>>, <<>>)
       IN  Serve(r, routeFlat(r, FS(dirs, files), now))
    /\ UNCHANGED <<rightPin, inflight>>

NextFlat ==
    \/ PostLogFlat
    \/ GetLogsFlat
    \/ PostClearFlat
    \/ GetHealthFlat

SpecFlat == InitFlat /\ [][NextFlat]_vars

----------------------------------------------------------------------------
(* The oldest program, with one single log file (lines 1276-1397). *)

LOG_FILE == <<"n","u","i","-","i","n","t","e","r","c","e","p","t">> \o EXT

\* The entries kept by slice(-100) in this program's GET /logs.
TAIL_LIMIT_SINGLE == 100

writeLogSingle(fs, t, data) ==
    LET logFilePath == pathJoin(<<LOG_FILE>>)
        logLine == << <<stringify(logEntry(t, data))>>, <<>> >>
        fs1 == appendFileSync(fs, logFilePath, logLine)
    IN  [fs1 EXCEPT !.calls = Append(@, Call("append", logFilePath, logEntry(t, data),
                                             <<Undef, Undef, data>>))]

postLogSingle(r, fs, t) == Outcome(sendStatus200, writeLogSingle(fs, t, r.body))

getLogsSingle(r, fs) ==
    IF ~existsSync(fs, <<LOG_FILE>>)
    THEN Outcome(Response(200, "array", <<>>), fs)
    ELSE LET read == readLogs(readFileSync(fs, <<LOG_FILE>>), TAIL_LIMIT_SINGLE)
         IN  IF read.threw
             THEN Outcome(jsonError(500, "SyntaxError"), fs)
             ELSE Outcome(Response(200, "array", read.logs), fs)

postClearSingle(r, fs) ==
    Outcome(Response(200, "object", <<<<"message", "Logs cleared">>>>),
            writeFileSyncEmpty(fs, <<LOG_FILE>>))

getHealthSingle(r, fs, t) ==
    Outcome(Response(200, "object",
                <<<<"status", "running">>, <<"logFile", "logs/nui-intercept.jsonl">>,
                  <<"timestamp", toISOString(t)>>>>), fs)

routeSingle(r, fs, t) ==
    CASE r.ep = "POST /log" -> postLogSingle(r, fs, t)
      [] r.ep = "GET /logs" -> getLogsSingle(r, fs)
      [] r.ep = "POST /clear" -> postClearSingle(r, fs)
      [] r.ep = "GET /health" -> getHealthSingle(r, fs, t)

InitSingle == InitWith(StoresWith({}, <<LOG_FILE>>))

PostLogSingle ==
    /\ now <= MaxClock
    /\ \E b \in LogBodies :
        LET r == Request("POST /log", jar, b, <<>>)
        IN  Serve(r, routeSingle(r, FS(dirs, files), now))
    /\ UNCHANGED <<rightPin, inflight>>

GetLogsSingle ==
    /\ LET r == Request("GET /logs", jar, <<>>, <<>>)
       IN  Serve(r, routeSingle(r, FS(dirs, files), now))
    /\ UNCHANGED <<rightPin, inflight>>

PostClearSingle ==
    /\ LET r == Request("POST /clear", jar, <<>>, <<>>)
       IN  Serve(r, routeSingle(r, FS(dirs, files), now))
    /\ UNCHANGED <<rightPin, inflight>>

GetHealthSingle ==
    /\ LET r == Request("GET /health", jar, <<>>, <<>>)
       IN  Serve(r, routeSingle(r, FS(dirs, files), now))
    /\ UNCHANGED <<rightPin, inflight>>

NextSingle ==
    \/ PostLogSingle
    \/ GetLogsSingle
    \/ PostClearSingle
    \/ GetHealthSingle

SpecSingle == InitSingle /\ [][NextSingle]_vars

----------------------------------------------------------------------------
(* The sanitizers alone: sanitizeName (lines 32-35) and                   *)
(* sanitizeResourceName (lines 601-604 and 1131-1137), called with a      *)
(* value.  req.body is the argument of the call, resp.body its result.    *)

\* The characters of the names: accepted ones and path punctuation.
NameChars == {"a", "Z", "0", "_", "-", ".", "/", "\\"}

Names == UNION {[1..n -> NameChars] : n \in 0..MaxNameLen}

\* The values the sanitizers are called with.
SanitizeInputs == {Str(n) : n \in Names} \cup {Undef, Null, Num(0), Num(123)}

InitSanitize ==
    /\ dirs = {}
    /\ files = [p \in {} |-> [old |-> 0, text |-> EmptyText]]
    /\ hist = [p \in {} |-> [old |-> 0, new |-> <<>>]]
    /\ now = 1
    /\ jar = Undef
    /\ \E x \in SanitizeInputs : req = Request("none", Undef, x, <<>>)
    /\ resp = NoResponse
    /\ calls = <<>>
    /\ rightPin = FALSE
    /\ inflight = EmptyBag

CallSanitizeName ==
    /\ req' = [req EXCEPT !.ep = "sanitizeName"]
    /\ resp' = Response(0, "string", sanitizeName(req.body))
    /\ UNCHANGED <<dirs, files, now, jar, calls, hist, rightPin, inflight>>

CallSanitizeResourceName ==
    /\ req' = [req EXCEPT !.ep = "sanitizeResourceName"]
    /\ resp' = Response(0, "string", sanitizeResourceName(req.body))
    /\ UNCHANGED <<dirs, files, now, jar, calls, hist, rightPin, inflight>>

NextSanitize ==
    \/ CallSanitizeName
    \/ CallSanitizeResourceName

SpecSanitize == InitSanitize /\ [][NextSanitize]_vars

----------------------------------------------------------------------------
(* The multi-server program with several POST /log requests in flight.    *)
(* A request is received (its body read from the socket and parsed by     *)
(* express.json) and then handled: the handler of lines 61-97 is          *)
(* synchronous and runs to its end before the event loop takes another    *)
(* request, in whatever order the bodies completed.                       *)

\* The bodies of the requests in flight: two for the key s1/foo, one for
\* another key, one that is refused.
InFlightBodies == {
    <<<<"server", Str(s1)>>, <<"resource", Str(foo)>>,
      <<"type", Str(console)>>, <<"data", Str(hello)>>>>,
    <<<<"server", Str(s1)>>, <<"resource", Str(foo)>>,
      <<"type", Str(nui_to_lua)>>, <<"callback", Num(5)>>>>,
    <<<<"resource", Str(foo)>>, <<"type", Str(fetch_call)>>,
      <<"url", Str(httpsBar)>>>>,
    <<<<"server", Str(s1)>>, <<"type", Str(console)>>, <<"data", Str(hello)>>>>
}

InitConcurrent ==
    /\ InitWith(InitStores)
    /\ jar = Undef

\* A POST /log arrives while others may be in flight.
ReceiveLog ==
    /\ BagCardinality(inflight) < MaxInFlight
    /\ \E b \in InFlightBodies : inflight' = inflight (+) SetToBag({b})
    /\ UNCHANGED <<dirs, files, now, jar, req, resp, calls, hist, rightPin>>

\* The event loop runs the handler for one of the requests in flight.
HandleLog ==
    /\ now <= MaxClock
    /\ \E b \in BagToSet(inflight) :
        LET r == Request("POST /log", jar, b, <<>>)
        IN  /\ Serve(r, route(r, FS(dirs, files), now))
            /\ inflight' = inflight (-) SetToBag({b})
    /\ UNCHANGED rightPin

NextConcurrent ==
    \/ ReceiveLog
    \/ HandleLog

SpecConcurrent == InitConcurrent /\ [][NextConcurrent]_vars

----------------------------------------------------------------------------
(* Vocabulary of the properties. *)

\* The answer to an authenticated tail of key (server, resource) in the
\* current state.
tail(server, resource) ==
    getLogs(Request("GET /logs", VIEWER_PIN, <<>>,
                    <<<<"server", server>>, <<"resource", resource>>>>),
            FS(dirs, files)).resp

\* The last request was a POST /log that appended a record.
Appended == req.ep = "POST /log" /\ resp.status = 200

\* The append made for the last request.
lastCall == calls[Len(calls)]

\* The server name of the key an append went to: writeLog's default when the
\* request names none.
keyServer(c) == IF Truthy(c.args[1]) THEN c.args[1] ELSE Str(default_server)

\* The record of a POST /log body: the body without the two key fields.
recordOf(body) == Delete(Delete(body, "resource"), "server")

\* The entries persisted in a file, in order.
persisted(p) ==
    LET lines == SelectSeq(readFileSync(FS(dirs, files), p), notBlank)
    IN  [i \in 1..Len(lines) |-> JSONparse(lines[i])]

\* The strings a resource may be inferred from: the url of a fetch_call, the
\* callback of a nui_to_lua.
inferable(body) ==
    LET type == Get(body, "type")
        url == Get(body, "url")
        callback == Get(body, "callback")
    IN  IF type = Str(fetch_call) /\ IsString(url) THEN {url.v}
        ELSE IF type = Str(nui_to_lua) /\ IsString(callback) THEN {callback.v}
        ELSE {}

HttpSchemes == {<<"h","t","t","p">>, <<"h","t","t","p","s">>}
AnySchemes == HttpSchemes \cup {<<"n","u","i">>}

\* The tokens t for which s is scheme://t/... with the scheme among `schemes`
\* and t a non-empty string over [A-Za-z0-9_-] (at most one).
tokensOf(s, schemes) ==
    {SubSeq(s, Len(x[1]) + 4, Len(x[1]) + 3 + x[2]) :
        x \in {y \in schemes \X (1..Len(s)) :
                /\ StartsWith(s, y[1] \o <<":","/","/">>)
                /\ Len(y[1]) + 4 + y[2] <= Len(s)
                /\ \A j \in (Len(y[1]) + 4)..(Len(y[1]) + 3 + y[2]) : s[j] \in SafeChars
                /\ s[Len(y[1]) + 4 + y[2]] = "/"}}

\* No resource can be inferred from the body.
noInference(body) == \A s \in inferable(body) : tokensOf(s, HttpSchemes) = {}

\* The body declares a resource name.
declaresResource(body) ==
    IsString(Get(body, "resource")) /\ Get(body, "resource").v # <<>>

CookieValues == {Undef, Str(wrongPin), VIEWER_PIN}

\* The requests to the gated endpoints that carry cookie value c.
GatedEndpoints == {"GET /logs", "POST /clear", "GET /view"}

gatedRequests(c) ==
    {Request("GET /logs", c, <<>>, q) : q \in LogQueries}
        \cup {Request("POST /clear", c, b, <<>>) : b \in ClearBodies}
        \cup {Request("GET /view", c, <<>>, <<>>)}

\* The response is a redirect to `location`.
redirectsTo(response, location) ==
    /\ response.status = 302
    /\ response.kind = "redirect"
    /\ response.location = location

\* Request r, made in the current state, passes the Auth Gate.
passes(r) == ~redirectsTo(route(r, FS(dirs, files), now).resp, "/login")

\* Pieces of text that are no JSON: something else, and white space.
garbage == [k |-> "text", v |-> <<>>]
space == [k |-> "ws", v |-> <<>>]

\* Contents a file may have been left with.
SampleContents == {
    [old |-> 0, text |-> << <<garbage>>, <<>> >>],
    [old |-> TAIL_LIMIT + 1, text |-> << <<garbage>> >>],
    [old |-> 0, text |-> << <<space>>, <<stringify(OldEntry(1)), stringify(OldEntry(2))>>, <<>> >>]
}

----------------------------------------------------------------------------
(* The properties. *)

\* C1: appending a record r to a key and tailing that key at once returns a
\* non-empty array whose last element has r's fields and `timestamp`, every
\* field of r but `timestamp` with r's value.
C1_AppendThenTail ==
    Appended =>
        LET c == lastCall
            r == c.args[3]
            got == tail(keyServer(c), c.args[2])
            last == got.body[Len(got.body)]
        IN  /\ c.op = "append"
            /\ r = recordOf(req.body)
            /\ got.status = 200
            /\ got.kind = "array"
            /\ Len(got.body) >= 1
            /\ Keys(last) = Keys(r) \cup {"timestamp"}
            /\ \A key \in Keys(r) \ {"timestamp"} : Get(last, key) = Get(r, key)

\* C1's case: a record appended to a file that then holds more entries than
\* a tail returns.
C1_Witness ==
    /\ Appended
    /\ hist[lastCall.path].old + Len(hist[lastCall.path].new) > TAIL_LIMIT

\* C3: the timestamp of a persisted record is the server's clock at the
\* write, also when the body carries a `timestamp` of its own.
C3_ServerTimestamp ==
    Appended =>
        LET entries == persisted(lastCall.path)
        IN  Get(entries[Len(entries)], "timestamp") = toISOString(now - 1)

\* C4 as claimed: a fetch_call url or nui_to_lua callback of the shape
\* scheme://<token>/..., whatever the scheme, stores the record under <token>.
C4_AnyScheme ==
    req.ep = "POST /log" =>
        \A s \in inferable(req.body) : \A t \in tokensOf(s, AnySchemes) :
            /\ resp.status = 200
            /\ lastCall.args[2] = Str(t)
            /\ lastCall.path = <<sanitizeName(keyServer(lastCall)), t \o EXT>>

\* C4 amended: a fetch_call url or nui_to_lua callback of the shape
\* http://<token>/... or https://<token>/... stores the record under
\* <token>, whatever resource the body declares.
C4_HttpScheme ==
    req.ep = "POST /log" =>
        \A s \in inferable(req.body) : \A t \in tokensOf(s, HttpSchemes) :
            /\ resp.status = 200
            /\ lastCall.op = "append"
            /\ lastCall.args[2] = Str(t)
            /\ lastCall.path = <<sanitizeName(keyServer(lastCall)), t \o EXT>>
            /\ lastCall.path \in DOMAIN files

\* C4's case: a record stored under an inferred token that differs from the
\* declared resource.
C4_Witness ==
    /\ Appended
    /\ declaresResource(req.body)
    /\ \E s \in inferable(req.body) : \E t \in tokensOf(s, HttpSchemes) :
        /\ Str(t) # Get(req.body, "resource")
        /\ lastCall.args[2] = Str(t)

\* C5: a POST /log that declares a resource and from which none can be
\* inferred is answered 200 and stored under the declared resource.
C5_FallbackToDeclared ==
    (req.ep = "POST /log" /\ declaresResource(req.body) /\ noInference(req.body)) =>
        /\ resp = sendStatus200
        /\ lastCall.op = "append"
        /\ lastCall.args[2] = Get(req.body, "resource")
        /\ lastCall.path = <<sanitizeName(keyServer(lastCall)),
                             sanitizeName(Get(req.body, "resource")) \o EXT>>
        /\ lastCall.path \in DOMAIN files

\* C5's case: the pattern match threw (a callback that is no string) and the
\* record went to the declared resource.
C5_Witness ==
    /\ Appended
    /\ Get(req.body, "type") = Str(nui_to_lua)
    /\ Get(req.body, "callback").k = "number"
    /\ lastCall.args[2] = Get(req.body, "resource")

\* C6 as claimed: a POST /log without a `resource` field is answered 400 with
\* an {error} body and writes nothing.
C6_NoResource400 ==
    (req.ep = "POST /log" /\ ~Has(req.body, "resource")) =>
        /\ resp.status = 400
        /\ calls = <<>>

\* C6 amended: a POST /log without a `resource` field, and from which no
\* resource can be inferred, is answered 400 with an {error} body and leaves
\* the files and directories as they were.
C6_NoResourceNoInference400 ==
    /\ (req.ep = "POST /log" /\ ~Has(req.body, "resource") /\ noInference(req.body)) =>
            /\ resp.status = 400
            /\ resp.kind = "object"
            /\ Keys(resp.body) = {"error"}
            /\ calls = <<>>
    /\ \A b \in LogBodies : \A c \in CookieValues :
        (~Has(b, "resource") /\ noInference(b)) =>
            LET out == postLog(Request("POST /log", c, b, <<>>), FS(dirs, files), now)
            IN  /\ out.resp.status = 400
                /\ out.fs.files = files
                /\ out.fs.dirs = dirs

\* C6's case: such a request was answered 400 while the store holds files.
C6_Witness ==
    /\ req.ep = "POST /log"
    /\ ~Has(req.body, "resource")
    /\ resp.status = 400
    /\ DOMAIN files # {}

\* C8: every POST /log the server answers has the outcome (response, files,
\* directories) it would have had with the right auth cookie, a wrong one or
\* none, before and after any login, and is never redirected to the login
\* page.
C8_IngestNotGated ==
    [][req'.ep = "POST /log" =>
        /\ resp'.status \in {200, 400}
        /\ \A c \in CookieValues :
            LET out == route(Request("POST /log", c, req'.body, <<>>),
                             FS(dirs, files), now)
            IN  /\ out.resp = resp'
                /\ out.fs.files = files'
                /\ out.fs.dirs = dirs']_vars

\* C8's case: a record was appended for a request with a wrong cookie, no
\* correct pin ever submitted.
C8_Witness ==
    /\ Appended
    /\ req.cookie = Str(wrongPin)
    /\ ~rightPin

\* C9: POST /login with the secret as pin sets the auth cookie to the secret
\* and redirects to /view, and requests with that cookie pass the Auth Gate;
\* with another pin or none it sets no cookie and redirects to /login; as
\* long as no correct pin was submitted no request passes the Auth Gate.
C9_Login ==
    /\ req.ep = "POST /login" =>
        IF Get(req.body, "pin") = VIEWER_PIN
        THEN /\ redirectsTo(resp, "/view")
             /\ resp.setCookie = VIEWER_PIN
             /\ jar = VIEWER_PIN
             /\ \A r \in gatedRequests(resp.setCookie) : passes(r)
        ELSE /\ redirectsTo(resp, "/login")
             /\ resp.setCookie = Undef
             /\ jar = req.cookie
    /\ ~rightPin =>
        /\ jar # VIEWER_PIN
        /\ \A r \in gatedRequests(jar) : ~passes(r)
    /\ (req.ep \in GatedEndpoints /\ ~redirectsTo(resp, "/login")) => rightPin

\* C9's case: after a correct login a request to a gated endpoint was served.
C9_Witness ==
    /\ rightPin
    /\ req.ep = "GET /logs"
    /\ req.cookie = VIEWER_PIN
    /\ resp.kind = "array"

\* C10: clearing a key whose file exists and tailing the key at once yields
\* an empty array, whatever the file held.
C10_ClearThenTail ==
    /\ (req.ep = "POST /clear" /\ resp.status = 200) =>
        LET got == tail(Get(req.body, "server"), Get(req.body, "resource"))
        IN  /\ got.status = 200
            /\ got.kind = "array"
            /\ got.body = <<>>
    /\ \A b \in ClearBodies :
        LET server == Get(b, "server")
            resource == Get(b, "resource")
            p == <<sanitizeName(server), sanitizeName(resource) \o EXT>>
        IN  (Truthy(server) /\ Truthy(resource) /\ p \in DOMAIN files) =>
                \A content \in SampleContents \cup {files[p]} :
                    LET fs0 == FS(dirs, [files EXCEPT ![p] = content])
                        out == route(Request("POST /clear", VIEWER_PIN, b, <<>>), fs0, now)
                        got == route(Request("GET /logs", VIEWER_PIN, <<>>, b), out.fs, now).resp
                    IN  /\ out.resp.status = 200
                        /\ got.status = 200
                        /\ got.kind = "array"
                        /\ got.body = <<>>

\* C10's case: a file that held entries was cleared.
C10_Witness ==
    /\ req.ep = "POST /clear"
    /\ resp.status = 200
    /\ lastCall.op = "truncate"
    /\ lastCall.path = OldPath
    /\ files[OldPath] = [old |-> 0, text |-> EmptyText]
    /\ now > 1

\* The entries appended to the file at path p since its last clear.
history(p) ==
    IF p \in DOMAIN hist
    THEN [i \in 1..hist[p].old |-> OldEntry(i)] \o hist[p].new
    ELSE <<>>

\* C2, in the single-file program: a tail returns the last min(200, n) of
\* the n entries appended since the last clear, oldest first.
C2_TailLast200 ==
    (req.ep = "GET /logs" /\ resp.status = 200) =>
        /\ Len(resp.body) <= TAIL_LIMIT
        /\ resp.body = sliceLast(history(<<LOG_FILE>>), TAIL_LIMIT)

\* C2, in the multi-server program: the same, for the key the tail names.
C2_TailLast200_MultiServer ==
    (/\ req.ep = "GET /logs"
     /\ resp.status = 200
     /\ Truthy(Get(req.query, "server"))
     /\ Truthy(Get(req.query, "resource"))) =>
        /\ Len(resp.body) <= TAIL_LIMIT
        /\ resp.body =
              sliceLast(history(<<sanitizeName(Get(req.query, "server")),
                                  sanitizeName(Get(req.query, "resource")) \o EXT>>),
                        TAIL_LIMIT)

\* C7: a request to a gated endpoint without the secret as auth cookie is
\* redirected to /login and writes nothing.
C7_GateRedirects ==
    (req.ep \in GatedEndpoints /\ req.cookie # VIEWER_PIN) =>
        /\ redirectsTo(resp, "/login")
        /\ calls = <<>>

\* C11, in the single-file program: clearing the key while it has no file
\* is answered 404 and leaves the files and directories as they were.
C11_ClearMissing404 ==
    [][(req'.ep = "POST /clear" /\ <<LOG_FILE>> \notin DOMAIN files) =>
        /\ resp'.status = 404
        /\ files' = files
        /\ dirs' = dirs]_vars

\* C11, in the multi-server program: the same for the key the body names.
C11_ClearMissing404_MultiServer ==
    [][(/\ req'.ep = "POST /clear"
        /\ req'.cookie = VIEWER_PIN
        /\ Truthy(Get(req'.body, "server"))
        /\ Truthy(Get(req'.body, "resource"))
        /\ <<sanitizeName(Get(req'.body, "server")),
             sanitizeName(Get(req'.body, "resource")) \o EXT>> \notin DOMAIN files) =>
        /\ resp'.status = 404
        /\ resp'.kind = "object"
        /\ files' = files
        /\ dirs' = dirs]_vars

\* C12: a POST /clear with the auth cookie whose body lacks `server` or lacks
\* `resource` is answered 400 with an {error} body, makes no write and leaves
\* the files and directories as they were.
C12_ClearNeedsServerAndResource ==
    [][(/\ req'.ep = "POST /clear"
        /\ req'.cookie = VIEWER_PIN
        /\ (~Has(req'.body, "server") \/ ~Has(req'.body, "resource"))) =>
        /\ resp'.status = 400
        /\ resp'.kind = "object"
        /\ Keys(resp'.body) = {"error"}
        /\ calls' = <<>>
        /\ files' = files
        /\ dirs' = dirs]_vars

\* C12's case: such a request was answered 400 while the store holds the
\* file of the resource it names.
C12_Witness ==
    /\ req.ep = "POST /clear"
    /\ req.cookie = VIEWER_PIN
    /\ ~Has(req.body, "server")
    /\ Get(req.body, "resource") = Str(foo)
    /\ resp.status = 400
    /\ OldPath \in DOMAIN files

\* The last step was a call of one of the sanitizers.
Sanitized == req.ep \in {"sanitizeName", "sanitizeResourceName"}

\* C13 as claimed: for every string s, the empty one too, sanitize(s) holds
\* only characters of [A-Za-z0-9_-] and is as long as s.
C13_SanitizeAnyString ==
    (Sanitized /\ IsString(req.body)) =>
        /\ \A i \in 1..Len(resp.body) : resp.body[i] \in SafeChars
        /\ Len(resp.body) = Len(req.body.v)

\* C13 amended: for every non-empty string s, sanitize(s) holds only
\* characters of [A-Za-z0-9_-], is as long as s, keeps every accepted
\* character of s in its place and has "_" in the place of every other.
C13_SanitizeNonEmptyString ==
    (Sanitized /\ IsString(req.body) /\ req.body.v # <<>>) =>
        /\ \A i \in 1..Len(resp.body) : resp.body[i] \in SafeChars
        /\ Len(resp.body) = Len(req.body.v)
        /\ \A i \in 1..Len(req.body.v) :
            resp.body[i] = IF req.body.v[i] \in SafeChars THEN req.body.v[i] ELSE "_"

\* C13's case: a name of path punctuation only was sanitized.
C13_Witness ==
    /\ req.ep = "sanitizeName"
    /\ req.body = Str(<<".", ".", "/">>)
    /\ resp.body = <<"_", "_", "_">>

\* The file system after POST /log stored a console record for server sv and
\* resource rs in an empty log directory.
written(sv, rs) ==
    postLog(Request("POST /log", Undef,
                    <<<<"server", sv>>, <<"resource", rs>>, <<"type", Str(console)>>>>,
                    <<>>),
            FS({}, [p \in {} |-> [old |-> 0, text |-> EmptyText]]), 1).fs

\* The key (sv, rs) is written, read and cleared at the one path of segments
\* seg1 and seg2: the record stored for it is what its tail returns, and
\* clearing it truncates that file.
samePath(sv, rs, seg1, seg2) ==
    LET fs == written(sv, rs)
        key == <<<<"server", sv>>, <<"resource", rs>>>>
        read == getLogs(Request("GET /logs", VIEWER_PIN, <<>>, key), FS(fs.dirs, fs.files))
        cleared == postClear(Request("POST /clear", VIEWER_PIN, key, <<>>),
                             FS(fs.dirs, fs.files))
    IN  /\ DOMAIN fs.files = {<<seg1, seg2 \o EXT>>}
        /\ read.resp.status = 200
        /\ Len(read.resp.body) = 1
        /\ cleared.resp.status = 200
        /\ cleared.fs.calls = <<Call("truncate", <<seg1, seg2 \o EXT>>, <<>>, <<>>)>>

\* C14: the sanitizers give a result for every value, and for every value
\* that is not a non-empty string (undefined, null, a number, the empty
\* string) the one fallback token of the program; a value that reaches
\* sanitizeName as a server or resource name is written, read and cleared
\* under the same segment.
C14_SanitizeFallback ==
    Sanitized =>
        LET x == req.body
            fallback == IF req.ep = "sanitizeName" THEN unknown ELSE unknown_resource
        IN  /\ resp.kind = "string"
            /\ Len(resp.body) >= 1
            /\ \A i \in 1..Len(resp.body) : resp.body[i] \in SafeChars
            /\ ~(IsString(x) /\ x.v # <<>>) => resp.body = fallback
            /\ (req.ep = "sanitizeName" /\ Truthy(x)) =>
                /\ samePath(Str(s1), x, s1, resp.body)
                /\ samePath(x, Str(foo), resp.body, foo)

\* C14's case: a number was sanitized to the fallback token.
C14_Witness ==
    /\ req.ep = "sanitizeName"
    /\ req.body = Num(123)
    /\ resp.body = unknown

\* C15: every file of the store is a sequence of complete lines, each one
\* holding exactly one JSON object: the records appended to the file since
\* its last clear, one per line and in order, the file ending with a line
\* break or being empty.
C15_OneRecordPerLine ==
    \A p \in DOMAIN files :
        LET text == files[p].text
        IN  /\ text[Len(text)] = <<>>
            /\ \A i \in 1..(Len(text) - 1) :
                /\ Len(text[i]) = 1
                /\ text[i][1].k = "json"
            /\ p \in DOMAIN hist
            /\ files[p].old = hist[p].old
            /\ [i \in 1..(Len(text) - 1) |-> text[i][1].v] = hist[p].new

\* C15's case: a record was appended to a file that held one record, written
\* since the file was created or last cleared.
C15_Witness ==
    /\ Appended
    /\ files[lastCall.path].old = 0
    /\ Len(files[lastCall.path].text) = 3
    /\ OldPath = lastCall.path

\* C16: every record persisted in a file of the store has a `timestamp`
\* field and a `type` field.
C16_TimestampAndType ==
    \A p \in DOMAIN files :
        \A i \in 1..(Len(files[p].text) - 1) :
            \A j \in 1..Len(files[p].text[i]) :
                /\ Has(files[p].text[i][j].v, "timestamp")
                /\ Has(files[p].text[i][j].v, "type")

\* The content of the file at path p in the files f: nothing when missing.
contentOf(f, p) ==
    IF p \in DOMAIN f THEN f[p] ELSE [old |-> 0, text |-> EmptyText]

\* C17: with POST /log requests in flight and handled in any order, every
\* accepted one adds, in the step that handles it, exactly one complete
\* line, holding its record, at the end of its key's file, and leaves the
\* lines of that file and every other file as they were; a refused one
\* changes nothing; the lines of a file are as many as the accepted appends
\* to it.
C17_ConcurrentAppends ==
    /\ [](\A p \in DOMAIN files :
            Len(files[p].text) - 1 = Len(hist[p].new))
    /\ [][BagCardinality(inflight') < BagCardinality(inflight) =>
            IF resp'.status = 200
            THEN LET c == calls'[Len(calls')]
                     before == contentOf(files, c.path)
                     after == contentOf(files', c.path)
                     n == Len(before.text)
                 IN  /\ DOMAIN files' = DOMAIN files \cup {c.path}
                     /\ \A q \in DOMAIN files \ {c.path} : files'[q] = files[q]
                     /\ after.old = before.old
                     /\ Len(after.text) = n + 1
                     /\ SubSeq(after.text, 1, n - 1) = SubSeq(before.text, 1, n - 1)
                     /\ after.text[n] = <<stringify(c.entry)>>
                     /\ recordOf(req'.body) = Delete(c.entry, "timestamp")
                     /\ after.text[n + 1] = <<>>
            ELSE files' = files /\ dirs' = dirs]_vars

\* C17's case: a second record was appended to a file while another request
\* was in flight.
C17_Witness ==
    /\ Appended
    /\ Len(hist[lastCall.path].new) = 2
    /\ inflight # EmptyBag

\* C18: a GET /logs with the auth cookie that tails a key whose file does
\* not exist, or lists the resources of a server whose directory does not
\* exist, is answered 200 with an empty array; a GET /logs makes no write
\* and leaves the files and directories as they were.
C18_ReadMissingIsEmpty ==
    [][(req'.ep = "GET /logs" /\ req'.cookie = VIEWER_PIN) =>
        LET server == Get(req'.query, "server")
            resource == Get(req'.query, "resource")
            empty == /\ resp'.status = 200
                     /\ resp'.kind = "array"
                     /\ resp'.body = <<>>
        IN  /\ files' = files
            /\ dirs' = dirs
            /\ calls' = <<>>
            /\ (/\ Truthy(server)
                /\ Truthy(resource)
                /\ <<sanitizeName(server), sanitizeName(resource) \o EXT>>
                       \notin DOMAIN files) => empty
            /\ (/\ Truthy(server)
                /\ ~Truthy(resource)
                /\ sanitizeName(server) \notin dirs) => empty]_vars

\* C18's case: the tail of a key without file, on a server that has a
\* directory with other files, was answered with the empty array.
C18_Witness ==
    /\ req.ep = "GET /logs"
    /\ req.cookie = VIEWER_PIN
    /\ req.query = <<<<"server", Str(s1)>>, <<"resource", Str(a_dot_b)>>>>
    /\ s1 \in dirs
    /\ OldPath \in DOMAIN files
    /\ resp.status = 200
    /\ resp.body = <<>>

\* C19: every GET /logs with the auth cookie (list of servers, list of the
\* resources of a server, tail of a key) is answered 200 with a JSON array.
C19_LogsAnswersArray ==
    (req.ep = "GET /logs" /\ req.cookie = VIEWER_PIN) =>
        /\ resp.status = 200
        /\ resp.kind = "array"
        /\ DOMAIN resp.body = 1..Len(resp.body)

\* C19's case: the tail of a file that holds more entries than a tail
\* returns was answered with an array.
C19_Witness ==
    /\ req.ep = "GET /logs"
    /\ req.cookie = VIEWER_PIN
    /\ req.query = <<<<"server", Str(s1)>>, <<"resource", Str(foo)>>>>
    /\ resp.kind = "array"
    /\ Len(resp.body) = TAIL_LIMIT
    /\ Len(history(OldPath)) > TAIL_LIMIT

\* A path segment made of characters of [A-Za-z0-9_-], at least one.
safeSegment(seg) == seg # <<>> /\ \A i \in 1..Len(seg) : seg[i] \in SafeChars

\* A path of the form <server segment>/<resource segment>.jsonl below the
\* log directory.
keyPath(p) ==
    /\ Len(p) = 2
    /\ safeSegment(p[1])
    /\ endsWith(p[2], EXT)
    /\ safeSegment(SubSeq(p[2], 1, Len(p[2]) - Len(EXT)))

\* The paths a handler handed to fs stay below the log directory: a file
\* that is appended to, truncated or read is a keyPath, a directory that is
\* made or listed is the log directory or one safe segment below it.
pathsBelowRoot(fs) ==
    /\ \A i \in 1..Len(fs.calls) :
        IF fs.calls[i].op = "mkdir"
        THEN Len(fs.calls[i].path) = 1 /\ safeSegment(fs.calls[i].path[1])
        ELSE keyPath(fs.calls[i].path)
    /\ \A i \in 1..Len(fs.reads) :
        LET p == fs.reads[i].path
        IN  CASE fs.reads[i].op = "read" -> keyPath(p)
              [] fs.reads[i].op = "readdir" ->
                    p = <<>> \/ (Len(p) = 1 /\ safeSegment(p[1]))
              [] OTHER -> keyPath(p) \/ (Len(p) = 1 /\ safeSegment(p[1]))

\* Names with path punctuation.
HostileNames == {up_s1, a_dot_b, <<".", ".">>, <<"/">>, <<"\\", "x">>}

\* C20: every file of the store and every path POST /log, GET /logs and
\* POST /clear hand to the file system is <server segment>/<resource
\* segment>.jsonl below the log directory, both segments non-empty and over
\* [A-Za-z0-9_-], also for names that hold `/`, `\`, `.` or `..`.
C20_PathsBelowRoot ==
    /\ \A p \in DOMAIN files : keyPath(p)
    /\ \A d \in dirs : safeSegment(d)
    /\ \A i \in 1..Len(calls) :
        calls[i].op # "mkdir" => keyPath(calls[i].path)
    /\ \A x \in HostileNames :
        LET key == <<<<"server", Str(x)>>, <<"resource", Str(x)>>>>
            fs == FS(dirs, files)
        IN  /\ pathsBelowRoot(postLog(Request("POST /log", Undef, key, <<>>), fs, now).fs)
            /\ pathsBelowRoot(getLogs(Request("GET /logs", VIEWER_PIN, <<>>, key), fs).fs)
            /\ pathsBelowRoot(getLogs(Request("GET /logs", VIEWER_PIN, <<>>,
                                              <<<<"server", Str(x)>>>>), fs).fs)
            /\ pathsBelowRoot(postClear(Request("POST /clear", VIEWER_PIN, key, <<>>), fs).fs)
    /\ LET key == <<<<"server", Str(up_s1)>>, <<"resource", Str(bar)>>>>
           fs == FS(dirs, files)
           read == getLogs(Request("GET /logs", VIEWER_PIN, <<>>, key), fs)
           cleared == postClear(Request("POST /clear", VIEWER_PIN, key, <<>>), fs)
       IN  /\ pathsBelowRoot(read.fs)
           /\ pathsBelowRoot(cleared.fs)
           /\ (\E q \in DOMAIN files : q[1] = sanitizeName(Str(up_s1))) =>
                /\ read.fs.reads[Len(read.fs.reads)].op = "read"
                /\ cleared.fs.calls # <<>>

\* C20's case: a record was stored for a server name that climbs out of the
\* log directory.
C20_Witness ==
    /\ Appended
    /\ Get(req.body, "server") = Str(up_s1)
    /\ lastCall.path[1] = <<"_", "_", "_", "s", "1">>
    /\ lastCall.path \in DOMAIN files

\* The names an authenticated GET /logs with query q lists for the
\* directories d and files f: the servers (q empty) or the resources of the
\* server q names.
listing(d, f, q) ==
    LET got == getLogs(Request("GET /logs", VIEWER_PIN, <<>>, q), FS(d, f)).resp
    IN  IF got.kind = "array" THEN {got.body[i] : i \in 1..Len(got.body)} ELSE {}

\* C21: no step deletes a file or a directory: a server that the server
\* listing returns, and a resource that the resource listing of a server
\* returns, is returned after every step; a resource that was cleared is
\* still listed, and clearing it again is answered 200.
C21_NeverDeleted ==
    /\ []((req.ep = "POST /clear" /\ resp.status = 200) =>
            LET server == Get(req.body, "server")
                again == postClear(req, FS(dirs, files))
            IN  /\ Str(sanitizeName(server)) \in listing(dirs, files, <<>>)
                /\ Str(sanitizeName(Get(req.body, "resource")))
                       \in listing(dirs, files, <<<<"server", server>>>>)
                /\ again.resp.status = 200
                /\ DOMAIN again.fs.files = DOMAIN files)
    /\ [][\/ files' = files /\ dirs' = dirs
          \/ /\ DOMAIN files \subseteq DOMAIN files'
             /\ dirs \subseteq dirs'
             /\ listing(dirs, files, <<>>) \subseteq listing(dirs', files', <<>>)
             /\ \A s \in listing(dirs, files, <<>>) :
                  listing(dirs, files, <<<<"server", s>>>>)
                      \subseteq listing(dirs', files', <<<<"server", s>>>>)]_vars

\* C21's case: a file that held records was cleared after a record had gone
\* to another server, and its resource is still listed.
C21_Witness ==
    /\ req.ep = "POST /clear"
    /\ resp.status = 200
    /\ OldPath \in DOMAIN files
    /\ files[OldPath] = [old |-> 0, text |-> EmptyText]
    /\ Str(foo) \in listing(dirs, files, <<<<"server", Str(s1)>>>>)
    /\ Cardinality(listing(dirs, files, <<>>)) = 2

----------------------------------------------------------------------------
(* The multi-server program started on a log directory whose file for the *)
(* key s1/foo holds a line that is no JSON (written by another program or  *)
(* by hand), for a browser that holds the auth cookie of a login made      *)
(* before the server was restarted.                                        *)

\* A file whose first line is no JSON, followed by more records than a tail
\* returns.
OldMalformed ==
    [old |-> 0, text |-> Concat(<< <<garbage>>, <<>> >>, OldText(TAIL_LIMIT + 1))]

InitMalformed ==
    /\ dirs = {s1}
    /\ \E c \in SampleContents \cup {OldMalformed} :
        files = [q \in {OldPath} |-> c]
    /\ hist = [q \in {OldPath} |-> [old |-> 0, new |-> <<>>]]
    /\ now = 1
    /\ jar = VIEWER_PIN
    /\ req = NoRequest
    /\ resp = NoResponse
    /\ calls = <<>>
    /\ rightPin = FALSE
    /\ inflight = EmptyBag

\* The endpoints that read and write the store.
NextMalformed ==
    \/ PostLog
    \/ GetLogs
    \/ PostClear

SpecMalformed == InitMalformed /\ [][NextMalformed]_vars

\* The file at path p of the files f holds a line that is not blank and is
\* no JSON text.
malformed(f, p) ==
    /\ p \in DOMAIN f
    /\ LET text == readFileSync(FS({}, f), p)
       IN  \E i \in 1..Len(text) : notBlank(text[i]) /\ ~parses(text[i])

\* C22: an authenticated tail of a key whose file holds a non-blank line that
\* is no JSON is answered 500 with an {error} body and no records, wherever
\* the line is in the file, and leaves the files and directories as they
\* were; tails of the other keys and listings are answered with arrays, a
\* POST /log that declares a resource is stored, and a clear of the key is
\* answered 200 and leaves a file whose tail is the empty array.
C22_MalformedTailFails ==
    [][LET key == IF req'.ep = "GET /logs" THEN req'.query ELSE req'.body
           server == Get(key, "server")
           resource == Get(key, "resource")
           path == <<sanitizeName(server), sanitizeName(resource) \o EXT>>
           authenticated == req'.cookie = VIEWER_PIN
       IN  /\ (req'.ep = "GET /logs" /\ authenticated) =>
                /\ files' = files
                /\ dirs' = dirs
                /\ calls' = <<>>
                /\ IF Truthy(server) /\ Truthy(resource) /\ malformed(files, path)
                   THEN /\ resp'.status = 500
                        /\ resp'.kind = "object"
                        /\ Keys(resp'.body) = {"error"}
                   ELSE /\ resp'.status = 200
                        /\ resp'.kind = "array"
           /\ (req'.ep = "POST /log" /\ declaresResource(req'.body)) =>
                /\ resp' = sendStatus200
                /\ calls'[Len(calls')].op = "append"
                /\ calls'[Len(calls')].path \in DOMAIN files'
           /\ (/\ req'.ep = "POST /clear"
               /\ authenticated
               /\ Truthy(server)
               /\ Truthy(resource)
               /\ path \in DOMAIN files) =>
                /\ resp'.status = 200
                /\ files'[path] = [old |-> 0, text |-> EmptyText]
                /\ getLogs(Request("GET /logs", VIEWER_PIN, <<>>, key),
                           FS(dirs', files')).resp = Response(200, "array", <<>>)]_vars

\* C22's case: the tail of a file whose first line is no JSON and is
\* followed by more records than a tail returns was answered 500, after a
\* record was stored.
C22_Witness ==
    /\ req.ep = "GET /logs"
    /\ req.cookie = VIEWER_PIN
    /\ req.query = <<<<"server", Str(s1)>>, <<"resource", Str(foo)>>>>
    /\ resp.status = 500
    /\ files[OldPath].text[1] = <<garbage>>
    /\ Len(files[OldPath].text) > TAIL_LIMIT + 2
    /\ now > 1

----------------------------------------------------------------------------
(* The multi-server program with appends, tails and clears in flight for   *)
(* two keys that differ in their resource names, a.b and a_b.  Every       *)
(* handler (lines 61-97, 100-142, 145-165) calls only the synchronous      *)
(* functions of fs and runs to its end before the event loop takes the     *)
(* next request: a handler is one step, and the requests in flight are     *)
(* handled in any order.                                                   *)

InFlightRequests ==
    LET dotted == <<<<"server", Str(s1)>>, <<"resource", Str(a_dot_b)>>>>
        plain == <<<<"server", Str(s1)>>, <<"resource", Str(<<"a", "_", "b">>)>>>>
    IN  {Request("POST /log", Undef,
                 dotted \o <<<<"type", Str(console)>>, <<"data", Str(hello)>>>>, <<>>),
         Request("POST /log", Undef,
                 plain \o <<<<"type", Str(fetch_call)>>, <<"url", Str(nuiBar)>>>>, <<>>),
         Request("GET /logs", VIEWER_PIN, <<>>, dotted),
         Request("GET /logs", VIEWER_PIN, <<>>, plain),
         Request("POST /clear", VIEWER_PIN, dotted, <<>>),
         Request("POST /clear", VIEWER_PIN, plain, <<>>)}

InitRace ==
    /\ InitWith(StoresWith({s1}, <<s1, <<"a", "_", "b">> \o EXT>>))
    /\ jar = Undef

\* A request arrives while others may be in flight.
ReceiveRequest ==
    /\ BagCardinality(inflight) < MaxRacing
    /\ \E r \in InFlightRequests :
        /\ r.ep = "POST /log" => now <= MaxClock
        /\ inflight' = inflight (+) SetToBag({r})
    /\ UNCHANGED <<dirs, files, now, jar, req, resp, calls, hist, rightPin>>

\* The event loop runs the handler for one of the requests in flight.
HandleRequest ==
    /\ \E r \in BagToSet(inflight) :
        /\ r.ep = "POST /log" => now <= MaxClock
        /\ Serve(r, route(r, FS(dirs, files), now))
        /\ inflight' = inflight (-) SetToBag({r})
    /\ UNCHANGED rightPin

NextRace ==
    \/ ReceiveRequest
    \/ HandleRequest

SpecRace == InitRace /\ [][NextRace]_vars

\* C23: the keys s1/a.b and s1/a_b, whose names sanitize to the same tokens,
\* address one file: a record appended under either is the last record of
\* the tail of both, a tail of either returns the records appended under
\* both since the last clear, a clear of either empties the file for both,
\* and no request is refused for the collision.
C23_CollidingKeysShareFile ==
    LET names == {Str(a_dot_b), Str(<<"a", "_", "b">>)}
        path == <<s1, <<"a", "_", "b">> \o EXT>>
    IN  /\ DOMAIN files \subseteq {path}
        /\ Appended =>
            /\ lastCall.path = path
            /\ lastCall.args[2] = Get(req.body, "resource")
            /\ \A n \in names :
                LET got == tail(Str(s1), n)
                IN  /\ got.status = 200
                    /\ got.body # <<>>
                    /\ got.body[Len(got.body)] = lastCall.entry
        /\ req.ep = "POST /log" => resp.status = 200
        /\ req.ep = "GET /logs" =>
            resp = Response(200, "array", sliceLast(history(path), TAIL_LIMIT))
        /\ req.ep = "POST /clear" =>
            IF path \in DOMAIN files
            THEN /\ resp.status = 200
                 /\ calls = <<Call("truncate", path, <<>>, <<>>)>>
                 /\ \A n \in names : tail(Str(s1), n) = Response(200, "array", <<>>)
            ELSE resp.status = 404

\* C23's case: the tail of s1/a_b returned, as its last record, a record
\* that was appended under s1/a.b.
C23_Witness ==
    /\ req.ep = "GET /logs"
    /\ Get(req.query, "resource") = Str(<<"a", "_", "b">>)
    /\ resp.status = 200
    /\ resp.body # <<>>
    /\ Get(resp.body[Len(resp.body)], "type") = Str(console)
    /\ Get(resp.body[Len(resp.body)], "data") = Str(hello)

\* C24: the decision of the Auth Gate is a function of the cookie value of
\* the request alone: in every state, whatever logins (failed or successful)
\* and other requests came before and whatever the store holds, a request to
\* a gated endpoint passes exactly when its cookie is the secret; a POST
\* /login changes nothing on the server, so there is no session it creates
\* and no lockout it triggers.
C24_GateStateless ==
    /\ [](\A c \in CookieValues : \A r \in gatedRequests(c) :
            passes(r) <=> c = VIEWER_PIN)
    /\ [][/\ req'.ep \in GatedEndpoints =>
                (redirectsTo(resp', "/login") <=> req'.cookie # VIEWER_PIN)
          /\ req'.ep = "POST /login" =>
                /\ files' = files
                /\ dirs' = dirs
                /\ calls' = <<>>
                /\ now' = now]_vars

\* C24's case: a wrong pin was submitted by a browser that holds the secret
\* as cookie, which still passes the gate.
C24_Witness ==
    /\ req.ep = "POST /login"
    /\ Get(req.body, "pin") = Str(wrongPin)
    /\ redirectsTo(resp, "/login")
    /\ jar = VIEWER_PIN
    /\ passes(Request("GET /view", jar, <<>>, <<>>))

\* C25: with appends, tails and clears of one file in flight and handled in
\* any order, every tail that is handled is answered 200 with complete
\* records only: the last 200 of the records appended to the file since the
\* last clear handled before it, in order, each one the whole entry of an
\* accepted append; the tail changes no file.
C25_RacingTailIsSuffix ==
    [][(BagCardinality(inflight') < BagCardinality(inflight)
            /\ req'.ep = "GET /logs") =>
        LET path == <<sanitizeName(Get(req'.query, "server")),
                      sanitizeName(Get(req'.query, "resource")) \o EXT>>
            appended == history(path)
            entries == {logEntry(t, recordOf(r.body)) :
                          t \in 1..now,
                          r \in {x \in InFlightRequests : x.ep = "POST /log"}}
        IN  /\ resp'.status = 200
            /\ resp'.kind = "array"
            /\ resp'.body = sliceLast(appended, TAIL_LIMIT)
            /\ resp'.body = SubSeq(appended, Len(appended) - Len(resp'.body) + 1,
                                   Len(appended))
            /\ \A i \in 1..Len(resp'.body) :
                    LET n == Get(resp'.body[i], "data")
                    IN  \/ resp'.body[i] \in entries
                        \/ n.k = "number" /\ n.v \in 1..OldLines
                                          /\ resp'.body[i] = OldEntry(n.v)
            /\ files' = files
            /\ hist' = hist]_vars

\* C25's case: a tail was handled while an append and a clear were still in
\* flight, and returned the records appended since an earlier clear.
C25_Witness ==
    /\ req.ep = "GET /logs"
    /\ resp.status = 200
    /\ resp.body # <<>>
    /\ \A i \in 1..Len(resp.body) : Get(resp.body[i], "type") # Str(<<"o", "l", "d">>)
    /\ \E r \in BagToSet(inflight) : r.ep = "POST /clear"
    /\ \E r \in BagToSet(inflight) : r.ep = "POST /log"

\* C26: a step changes at most the file of the key it addresses.  A POST
\* /log answered 200 leaves every other file as it was and appends to the
\* file of its key, whose earlier lines stay as a prefix, making at most the
\* directory of its server; a POST /clear answered 200 empties the file of
\* its key and leaves every other file and the directories as they were;
\* every other request (GET /logs, GET /health, GET /login, POST /login,
\* GET /, GET /view, and the refused ones) changes no file and no directory.
C26_FrameOfWrites ==
    [][LET stored == req'.ep = "POST /log" /\ resp'.status = 200
           cleared == req'.ep = "POST /clear" /\ resp'.status = 200
           path == IF stored
                   THEN <<sanitizeName(keyServer(calls'[Len(calls')])),
                          sanitizeName(calls'[Len(calls')].args[2]) \o EXT>>
                   ELSE <<sanitizeName(Get(req'.body, "server")),
                          sanitizeName(Get(req'.body, "resource")) \o EXT>>
           before == contentOf(files, path)
           after == contentOf(files', path)
           n == Len(before.text)
       IN  IF stored
           THEN /\ DOMAIN files' = DOMAIN files \cup {path}
                /\ \A q \in DOMAIN files \ {path} : files'[q] = files[q]
                /\ dirs \subseteq dirs'
                /\ dirs' \subseteq dirs \cup {path[1]}
                /\ after.old = before.old
                /\ Len(after.text) = n + 1
                /\ SubSeq(after.text, 1, n - 1) = SubSeq(before.text, 1, n - 1)
                /\ SubSeq(after.text[n], 1, Len(before.text[n])) = before.text[n]
           ELSE IF cleared
           THEN /\ path \in DOMAIN files
                /\ files' = [files EXCEPT ![path] = [old |-> 0, text |-> EmptyText]]
                /\ dirs' = dirs
           ELSE files' = files /\ dirs' = dirs]_vars

\* C26's case: a record was stored under a new key of a new server while the
\* file of another key held the records of the earlier run.
C26_Witness ==
    /\ Appended
    /\ lastCall.path # OldPath
    /\ lastCall.path[1] # s1
    /\ Len(calls) = 2
    /\ OldPath \in DOMAIN files
    /\ files[OldPath] = [old |-> OldLines, text |-> EmptyText]

\* C27 as claimed: a POST /log without a server name, or with an empty one,
\* is stored under default_server; its record is returned by the tail of
\* the stored resource for the server name default_server and for no other
\* server name, default_server is in the server listing, and the file is
\* cleared by a POST /clear that names default_server and by no other, one
\* without a server being answered 400.
C27_DefaultServerOnly ==
    (Appended /\ ~Truthy(Get(req.body, "server"))) =>
        LET rs == lastCall.args[2]
            path == <<default_server, sanitizeName(rs) \o EXT>>
            names == {Str(default_server), Str([default_server EXCEPT ![8] = "."]),
                      Str(s1), Str(zz), Str(unknown), Str(<<>>), Undef}
            \* without a server name GET /logs lists names and returns no record
            returned(x) ==
                LET got == tail(x, rs)
                IN  /\ Truthy(x)
                    /\ got.kind = "array"
                    /\ \E i \in 1..Len(got.body) : got.body[i] = lastCall.entry
            clear(x) ==
                postClear(Request("POST /clear", VIEWER_PIN,
                                  <<<<"server", x>>, <<"resource", rs>>>>, <<>>),
                          FS(dirs, files))
            emptied(x) ==
                /\ clear(x).resp.status = 200
                /\ clear(x).fs.files[path] = [old |-> 0, text |-> EmptyText]
        IN  /\ lastCall.path = path
            /\ path \in DOMAIN files
            /\ Str(default_server) \in listing(dirs, files, <<>>)
            /\ \A x \in names : returned(x) <=> x = Str(default_server)
            /\ \A x \in names : emptied(x) <=> x = Str(default_server)
            /\ \A x \in {Str(<<>>), Undef} : clear(x).resp.status = 400

\* C27 amended: a POST /log without a server name, or with an empty one, is
\* stored under default_server; its record is returned by the tail of the
\* stored resource exactly for the server names that sanitize to
\* default_server (default_server itself, default.server), default_server
\* is in the server listing, and the file is cleared exactly by the POST
\* /clear requests that name such a server, one without a server or with an
\* empty one being answered 400 and changing nothing.
C27_DefaultServer ==
    /\ (Appended /\ ~Truthy(Get(req.body, "server"))) =>
        LET rs == lastCall.args[2]
            path == <<default_server, sanitizeName(rs) \o EXT>>
            names == {Str(default_server), Str([default_server EXCEPT ![8] = "."]),
                      Str(s1), Str(zz), Str(unknown), Str(<<>>), Undef}
            aliases == {x \in names : Truthy(x) /\ sanitizeName(x) = default_server}
            \* without a server name GET /logs lists names and returns no record
            returned(x) ==
                LET got == tail(x, rs)
                IN  /\ Truthy(x)
                    /\ got.kind = "array"
                    /\ \E i \in 1..Len(got.body) : got.body[i] = lastCall.entry
            clear(x) ==
                postClear(Request("POST /clear", VIEWER_PIN,
                                  <<<<"server", x>>, <<"resource", rs>>>>, <<>>),
                          FS(dirs, files))
            emptied(x) ==
                /\ clear(x).resp.status = 200
                /\ clear(x).fs.files[path] = [old |-> 0, text |-> EmptyText]
        IN  /\ lastCall.path = path
            /\ path \in DOMAIN files
            /\ default_server \in dirs
            /\ Str(default_server) \in listing(dirs, files, <<>>)
            /\ Cardinality(aliases) = 2
            /\ \A x \in names : returned(x) <=> x \in aliases
            /\ \A x \in names : emptied(x) <=> x \in aliases
            /\ \A x \in {Str(<<>>), Undef} :
                /\ clear(x).resp.status = 400
                /\ clear(x).fs.files = files
    /\ Appended =>
        \A x \in {Str(<<>>), Null} :
            LET out == postLog(Request("POST /log", Undef,
                                       Put(req.body, "server", x), <<>>),
                               FS(dirs, files), now)
            IN  /\ out.resp = sendStatus200
                /\ out.fs.calls[Len(out.fs.calls)].path[1] = default_server
                /\ default_server \in out.fs.dirs

\* C27's case: a record without a server name was stored while another
\* server has a directory.
C27_Witness ==
    /\ Appended
    /\ ~Has(req.body, "server")
    /\ lastCall.path[1] = default_server
    /\ s1 \in dirs

\* C28: in every state, every server name s of the server listing and every
\* resource name n of the resource listing of s hold only characters of
\* [A-Za-z0-9_-] and are left unchanged by sanitizeName; the listed pairs of
\* s are exactly the files of its directory; the tail of (s, n) reads the
\* file s/n.jsonl and is answered 200, and the clear of (s, n) truncates
\* that file and is answered 200, never 404.
C28_ListingsRoundTrip ==
    \A s \in listing(dirs, files, <<>>) :
        /\ IsString(s)
        /\ safeSegment(s.v)
        /\ sanitizeName(s) = s.v
        /\ sanitizeName(Str(sanitizeName(s))) = sanitizeName(s)
        /\ {<<s.v, n.v \o EXT>> : n \in listing(dirs, files, <<<<"server", s>>>>)}
              = {q \in DOMAIN files : q[1] = s.v}
        /\ \A n \in listing(dirs, files, <<<<"server", s>>>>) :
            LET key == <<<<"server", s>>, <<"resource", n>>>>
                path == <<s.v, n.v \o EXT>>
                read == getLogs(Request("GET /logs", VIEWER_PIN, <<>>, key),
                                FS(dirs, files))
                cleared == postClear(Request("POST /clear", VIEWER_PIN, key, <<>>),
                                     FS(dirs, files))
            IN  /\ IsString(n)
                /\ safeSegment(n.v)
                /\ sanitizeName(n) = n.v
                /\ path \in DOMAIN files
                /\ read.resp.status = 200
                /\ read.resp.kind = "array"
                /\ read.fs.reads = <<[op |-> "exists", path |-> path],
                                     [op |-> "read", path |-> path]>>
                /\ cleared.resp.status = 200
                /\ cleared.fs.calls = <<Call("truncate", path, <<>>, <<>>)>>

\* C28's case: the listings hold two servers, one of them made for a server
\* name that the sanitizer rewrote, with a resource listed under it.
C28_Witness ==
    /\ Cardinality(listing(dirs, files, <<>>)) = 2
    /\ Str(sanitizeName(Str(up_s1))) \in listing(dirs, files, <<>>)
    /\ up_s1 # sanitizeName(Str(up_s1))
    /\ Str(bar) \in listing(dirs, files, <<<<"server", Str(sanitizeName(Str(up_s1)))>>>>)

====
